---- MODULE Spec2Model ----
(***************************************************************************)
(* Model of the collaborative drawing client (DrawArea component): the     *)
(* Stroke Store (strokesRef), the Local Stroke Builder (currentStrokeRef), *)
(* the Remote Stroke Table (remoteStrokesRef), the pointer handlers, the   *)
(* socket listeners, undo, clear and hydration.                            *)
(*                                                                         *)
(* The repository holds two versions of the component:                     *)
(*   "index"    src/client/src/features/drawing/components/DrawArea/       *)
(*              index.tsx                                                  *)
(*   "part_001" src/unnamed/part_001 (the version with export)             *)
(* They differ in the draw:start and draw:move listeners (drawLine per     *)
(* received point against redraw()) and in the resize effect, which only   *)
(* "part_001" has.  Every client runs one of them, fixed at construction   *)
(* (field build).                                                          *)
(*                                                                         *)
(* The canvas is modelled by the paths stroked on it since it was last     *)
(* cleared, in paint order, each with the strokeStyle and lineWidth it was *)
(* stroked with; a point is on the canvas when a stroked path goes through *)
(* it.  Rasterisation is not modelled.                                     *)
(***************************************************************************)
EXTENDS Integers, Sequences, FiniteSets, TLC

(***************************************************************************)
(* Bounds of the model.                                                    *)
(***************************************************************************)
\* most points a stroke under construction (local or remote) may hold
MaxPoints == 4
\* most strokes the Stroke Store may hold
MaxStrokes == 3
\* most handler invocations in one behaviour of Spec
MaxSteps == 4
\* most gestures one participant begins in one behaviour of SpecNet
MaxGestures == 1
\* most colour-store operations in one behaviour of SpecColors
MaxColorSteps == 3
\* most layers of a starting configuration of SpecLayers
MaxLayers == 3
\* most reorder calls in one behaviour of SpecLayers
MaxLayerSteps == 2

(***************************************************************************)
(* Data.                                                                   *)
(***************************************************************************)
\* type Point = { x: number; y: number }
P0 == [x |-> 0, y |-> 0]
P1 == [x |-> 1, y |-> 1]
Points == {P0, P1}

\* the toolbar's (color, lineWidth, isEraser) a stroke is begun with
Styles == {[color |-> "#f00", width |-> 2, isEraser |-> FALSE],
           [color |-> "black", width |-> 4, isEraser |-> TRUE]}

\* the two versions of the component
Builds == {"index", "part_001"}

\* the participants running a client, and the one Spec exercises
Clients == {"u1", "u2"}
Me == "u1"
\* the remote participant ids whose events the environment of Spec delivers
Participants == {"u2", "u3"}

\* type Stroke = { points: Point[]; color: string; width: number; isEraser?: boolean }
Stroke(points, color, width, isEraser) ==
  [points |-> points, color |-> color, width |-> width, isEraser |-> isEraser]

\* currentStrokeRef.current: null is <<>>, a stroke s is <<s>>
Null == <<>>

\* remoteStrokesRef.current[userId] = entry
Put(table, userId, entry) ==
  [q \in (DOMAIN table) \cup {userId} |-> IF q = userId THEN entry ELSE table[q]]

\* delete remoteStrokesRef.current[userId]
Delete(table, userId) ==
  [q \in (DOMAIN table) \ {userId} |-> table[q]]

\* remoteStrokesRef.current = {}
EmptyTable == <<>>

\* what destructuring gives for a field the payload lacks; used as an object
\* key it is the string "undefined"
Undefined == "undefined"

\* const { userId, points } = data
UserId(data) == IF "userId" \in DOMAIN data THEN data.userId ELSE Undefined
HasPoints(data) == "points" \in DOMAIN data

\* how often the mount effects run: once in a production build, twice in a
\* development build, where <StrictMode> mounts, unmounts and mounts again
\* every component with its refs kept
Mounts == {1, 2}

(***************************************************************************)
(* The component's state after construction: one record per client.        *)
(*   strokes        strokesRef.current                                     *)
(*   currentStroke  currentStrokeRef.current                               *)
(*   remoteStrokes  remoteStrokesRef.current                               *)
(*   myUser         useMyUserStore().myUser ("null" until myUser:joined;   *)
(*                  the store is global, so the component may be mounted   *)
(*                  before or after the user joined)                       *)
(*   remoteOrder    the keys of remoteStrokesRef.current in the order      *)
(*                  Object.values visits them (order of creation)          *)
(*   listening      the canvas has the mousemove/mouseup listeners         *)
(*   fetches        snapshot responses (SocketManager.get) still to come   *)
(*   canvas         the paths stroked since the canvas was last cleared    *)
(*   out            the events the last handler emitted, in order          *)
(*   redraws        the calls of redraw() the last handler made            *)
(*   threw          the last handler ended by throwing                     *)
(*   saved          the files the last handler made the browser download   *)
(*   alerts         the calls of alert() the last handler made             *)
(***************************************************************************)
InitClient(b) ==
  [build |-> b,
   strokes |-> <<>>,
   currentStroke |-> Null,
   remoteStrokes |-> EmptyTable,
   remoteOrder |-> <<>>,
   myUser |-> "null",
   listening |-> FALSE,
   fetches |-> 1,
   canvas |-> <<>>,
   out |-> <<>>,
   redraws |-> 0,
   threw |-> FALSE,
   saved |-> <<>>,
   alerts |-> 0]

\* a handler starts with nothing emitted, no repaint made, nothing thrown,
\* nothing downloaded and no alert shown
Enter(cs) ==
  [cs EXCEPT !.out = <<>>, !.redraws = 0, !.threw = FALSE, !.saved = <<>>, !.alerts = 0]

\* SocketManager.emit(event, payload)
Emit(cs, ev) == [cs EXCEPT !.out = Append(@, ev)]

\* an uncaught TypeError ends the handler
Throw(cs) == [cs EXCEPT !.threw = TRUE]

\* remoteStrokesRef.current[userId] = entry: a new key goes last in key order,
\* an existing key keeps its place
PutEntry(cs, userId, entry) ==
  [cs EXCEPT !.remoteStrokes = Put(@, userId, entry),
             !.remoteOrder = IF userId \in DOMAIN cs.remoteStrokes THEN @
                             ELSE Append(@, userId)]

\* delete remoteStrokesRef.current[userId]
DeleteEntry(cs, userId) ==
  [cs EXCEPT !.remoteStrokes = Delete(@, userId),
             !.remoteOrder = SelectSeq(@, LAMBDA q : q # userId)]

\* ctx.strokeStyle, ctx.lineWidth and the path of ctx.stroke() for a stroke
Painted(stroke) ==
  [color |-> IF stroke.isEraser THEN "white" ELSE stroke.color,
   width |-> stroke.width,
   path |-> stroke.points]

\* a redraw() that paints the remote strokes in progress first and the
\* finalized strokes over them
RedrawRemoteFirst(cs) ==
  [cs EXCEPT !.redraws = @ + 1,
             !.canvas = [j \in 1..Len(cs.remoteOrder) |->
                           Painted(cs.remoteStrokes[cs.remoteOrder[j]])]
                        \o [i \in 1..Len(cs.strokes) |-> Painted(cs.strokes[i])]]

\* redraw(): clearRect, then strokesRef in order, then the values of
\* remoteStrokesRef
Redraw(cs) ==
  [cs EXCEPT !.redraws = @ + 1,
             !.canvas = [i \in 1..Len(cs.strokes) |-> Painted(cs.strokes[i])]
                        \o [j \in 1..Len(cs.remoteOrder) |->
                              Painted(cs.remoteStrokes[cs.remoteOrder[j]])]]

\* drawLine(point): pushes the point on the LOCAL stroke in progress, if any,
\* and strokes the segment from that stroke's previous point (a dot when the
\* point is its first) in that stroke's style
DrawLine(cs, point) ==
  IF cs.currentStroke = Null THEN cs
  ELSE LET stroke == [cs.currentStroke[1] EXCEPT !.points = Append(@, point)]
           n == Len(stroke.points)
           segment == IF n > 1 THEN <<stroke.points[n - 1], stroke.points[n]>>
                      ELSE <<stroke.points[1], stroke.points[1]>>
       IN [cs EXCEPT !.currentStroke = <<stroke>>,
                     !.canvas = Append(@, [Painted(stroke) EXCEPT !.path = segment])]

\* points.forEach(point => drawLine(point))
RECURSIVE DrawLines(_, _)
DrawLines(cs, points) ==
  IF points = <<>> THEN cs
  ELSE DrawLines(DrawLine(cs, Head(points)), Tail(points))

(***************************************************************************)
(* Pointer handlers.                                                       *)
(***************************************************************************)
OnMouseMove(cs, coords) ==
  Emit(DrawLine(cs, coords), [type |-> "draw:move", x |-> coords.x, y |-> coords.y])

\* an onMouseUp that leaves the canvas listeners attached
OnMouseUpKeepsListeners(cs) ==
  LET pushed == IF cs.currentStroke # Null
                THEN [cs EXCEPT !.strokes = Append(@, cs.currentStroke[1]),
                                !.currentStroke = Null]
                ELSE cs
  IN Emit(pushed, [type |-> "draw:end"])

OnMouseUp(cs) ==
  LET pushed == IF cs.currentStroke # Null
                THEN [cs EXCEPT !.strokes = Append(@, cs.currentStroke[1]),
                                !.currentStroke = Null]
                ELSE cs
  IN Emit([pushed EXCEPT !.listening = FALSE], [type |-> "draw:end"])

\* an onMouseDown without the canUserDraw guard
OnMouseDownUnguarded(cs, coords, style) ==
  LET begun == [cs EXCEPT !.currentStroke =
                   <<Stroke(<<coords>>, style.color, style.width, style.isEraser)>>]
      drawn == DrawLine(begun, coords)
  IN Emit([drawn EXCEPT !.listening = TRUE],
          [type |-> "draw:start", x |-> coords.x, y |-> coords.y,
           color |-> style.color, width |-> style.width,
           isEraser |-> style.isEraser])

OnMouseDown(cs, coords, style) ==
  IF cs.myUser = "null" THEN cs
  ELSE LET begun == [cs EXCEPT !.currentStroke =
                        <<Stroke(<<coords>>, style.color, style.width, style.isEraser)>>]
           drawn == DrawLine(begun, coords)
       IN Emit([drawn EXCEPT !.listening = TRUE],
               [type |-> "draw:start", x |-> coords.x, y |-> coords.y,
                color |-> style.color, width |-> style.width,
                isEraser |-> style.isEraser])

\* window resize: setCanvasDimensions() sets the canvas size, which clears the
\* canvas, and ends with redraw()
SetCanvasDimensions(cs) == Redraw([cs EXCEPT !.canvas = <<>>])

\* SocketManager.listen("myUser:joined", data => setMyUser(data.user))
OnMyUserJoined(cs) == [cs EXCEPT !.myUser = "user"]

\* joinMyUser(): emits myUser:join (with the user createMyUser() makes) if the
\* socket store says the client is connected
JoinMyUser(cs, isConnectedToServer) ==
  IF isConnectedToServer THEN Emit(cs, [type |-> "myUser:join"]) ELSE cs

(***************************************************************************)
(* Hydration: the snapshot response of SocketManager.get('strokes').       *)
(* A snapshot stroke is {points, color, strokeWidth, isEraser}.            *)
(***************************************************************************)
RECURSIVE PushAll(_, _)
PushAll(strokes, snapshot) ==
  IF snapshot = <<>> THEN strokes
  ELSE PushAll(Append(strokes, Stroke(Head(snapshot).points, Head(snapshot).color,
                                      Head(snapshot).strokeWidth, Head(snapshot).isEraser)),
               Tail(snapshot))

\* data is <<>> (no data) or <<[strokes |-> snapshot]>>
OnStrokesLoaded(cs, data) ==
  LET got == [cs EXCEPT !.fetches = @ - 1]
  IN IF data = <<>> THEN got
     ELSE Redraw([got EXCEPT !.strokes = PushAll(@, data[1].strokes)])

(***************************************************************************)
(* Socket listeners.  data is the relayed payload                          *)
(* {userId, points, color, strokeWidth, isEraser}; a malformed payload     *)
(* lacks userId or points.                                                 *)
(***************************************************************************)
\* a draw:start that merges into the id's entry instead of overwriting it
OnDrawStartMerges(cs, data) ==
  IF ~HasPoints(data) THEN Throw(cs)
  ELSE LET old == IF UserId(data) \in DOMAIN cs.remoteStrokes
                  THEN cs.remoteStrokes[UserId(data)].points ELSE <<>>
           put == PutEntry(cs, UserId(data),
                           Stroke(old \o data.points, data.color,
                                  data.strokeWidth, data.isEraser))
       IN IF cs.build = "index" THEN DrawLines(put, data.points) ELSE Redraw(put)

\* a draw:start that replaces the whole table by the new entry
OnDrawStartResetsTable(cs, data) ==
  IF ~HasPoints(data) THEN Throw(cs)
  ELSE LET put == [cs EXCEPT !.remoteStrokes =
                     Put(EmptyTable, UserId(data),
                         Stroke(data.points, data.color,
                                data.strokeWidth, data.isEraser)),
                             !.remoteOrder = <<UserId(data)>>]
       IN IF cs.build = "index" THEN DrawLines(put, data.points) ELSE Redraw(put)

\* [...points] throws a TypeError when the payload has no points, before the
\* entry is assigned; a payload without userId is stored under "undefined"
OnDrawStart(cs, data) ==
  IF ~HasPoints(data) THEN Throw(cs)
  ELSE LET put == PutEntry(cs, UserId(data),
                           Stroke(data.points, data.color,
                                  data.strokeWidth, data.isEraser))
       IN IF cs.build = "index" THEN DrawLines(put, data.points) ELSE Redraw(put)

\* a draw:move that opens an entry for an id that has none
OnDrawMoveCreates(cs, data) ==
  IF ~HasPoints(data) THEN Throw(cs)
  ELSE LET pushed == PutEntry(cs, UserId(data),
                       IF UserId(data) \in DOMAIN cs.remoteStrokes
                       THEN [cs.remoteStrokes[UserId(data)] EXCEPT !.points = @ \o data.points]
                       ELSE Stroke(data.points, "black", 4, FALSE))
       IN IF cs.build = "index" THEN DrawLines(pushed, data.points) ELSE Redraw(pushed)

\* push(...points) throws a TypeError when the payload has no points
OnDrawMove(cs, data) ==
  IF UserId(data) \notin DOMAIN cs.remoteStrokes THEN cs
  ELSE IF ~HasPoints(data) THEN Throw(cs)
  ELSE LET pushed == [cs EXCEPT !.remoteStrokes[UserId(data)].points = @ \o data.points]
       IN IF cs.build = "index" THEN DrawLines(pushed, data.points) ELSE Redraw(pushed)

\* a draw:end without the guard: what it finds under the id goes to the store
OnDrawEndUnguarded(cs, data) ==
  Redraw(DeleteEntry([cs EXCEPT !.strokes =
                        Append(@, IF UserId(data) \in DOMAIN cs.remoteStrokes
                                  THEN cs.remoteStrokes[UserId(data)]
                                  ELSE Stroke(<<>>, "", 0, FALSE))],
                     UserId(data)))

OnDrawEnd(cs, data) ==
  IF UserId(data) \notin DOMAIN cs.remoteStrokes THEN cs
  ELSE Redraw(DeleteEntry([cs EXCEPT !.strokes = Append(@, cs.remoteStrokes[UserId(data)])],
                          UserId(data)))

\* a draw:clear that forgets the Remote Stroke Table
OnDrawClearKeepsRemote(cs) == Redraw([cs EXCEPT !.strokes = <<>>])

\* a draw:clear listener that sends the clear on again
OnDrawClearRebroadcasts(cs) ==
  Emit(Redraw([cs EXCEPT !.strokes = <<>>, !.remoteStrokes = EmptyTable,
                         !.remoteOrder = <<>>]),
       [type |-> "draw:clear"])

OnDrawClear(cs) ==
  Redraw([cs EXCEPT !.strokes = <<>>, !.remoteStrokes = EmptyTable, !.remoteOrder = <<>>])

(***************************************************************************)
(* Undo (Ctrl/Cmd+Z) and the clear button.                                 *)
(***************************************************************************)
\* strokesRef.current.pop()
Pop(strokes) == IF strokes = <<>> THEN strokes ELSE SubSeq(strokes, 1, Len(strokes) - 1)

\* an undo that takes the oldest stroke (shift) instead of the newest
OnKeyDownShifts(cs) ==
  Redraw([cs EXCEPT !.strokes = IF @ = <<>> THEN @ ELSE Tail(@)])

OnKeyDown(cs) == Redraw([cs EXCEPT !.strokes = Pop(@)])

ClearCanvas(cs) ==
  Emit(Redraw([cs EXCEPT !.strokes = <<>>, !.remoteStrokes = EmptyTable,
                         !.remoteOrder = <<>>]),
       [type |-> "draw:clear"])

(***************************************************************************)
(* The colour store (useColorStore).  A colour is a string the store only  *)
(* compares with === and !==; the model names the colours 0, 1, 2, ...,    *)
(* with 0 for the initial '#000000'.                                       *)
(***************************************************************************)
\* [color, ...filtered].slice(0, 10)
RecentLimit == 10
\* customPalette.length < 20
CustomLimit == 20

InitColorStore == [currentColor |-> 0, recentColors |-> <<>>, customPalette |-> <<>>]

\* array.includes(color)
Includes(array, color) == \E i \in 1..Len(array) : array[i] = color
\* array.filter(c => c !== color)
Without(array, color) == SelectSeq(array, LAMBDA c : c # color)
\* array.slice(0, n)
Slice(array, n) == SubSeq(array, 1, IF Len(array) < n THEN Len(array) ELSE n)

\* an addRecentColor that puts the colour last
AddRecentColorLast(st, color) ==
  [st EXCEPT !.recentColors = Slice(Without(@, color) \o <<color>>, RecentLimit)]

AddRecentColor(st, color) ==
  [st EXCEPT !.recentColors = Slice(<<color>> \o Without(@, color), RecentLimit)]

SetCurrentColor(st, color) == AddRecentColor([st EXCEPT !.currentColor = color], color)

AddToCustomPalette(st, color) ==
  IF ~Includes(st.customPalette, color) /\ Len(st.customPalette) < CustomLimit
  THEN [st EXCEPT !.customPalette = Append(@, color)]
  ELSE st

RemoveFromCustomPalette(st, color) == [st EXCEPT !.customPalette = Without(@, color)]

ClearRecentColors(st) == [st EXCEPT !.recentColors = <<>>]

ClearCustomPalette(st) == [st EXCEPT !.customPalette = <<>>]

\* customPalette: [...palette.colors]
LoadPalette(st, palette) == [st EXCEPT !.customPalette = palette.colors]

(***************************************************************************)
(* The Layer Manager (useLayersStore.ts, which the repository's notes name *)
(* and whose source is not available): modelled from the specification.    *)
(* A layer is its id and its order; name, visible, opacity and strokes     *)
(* play no part in reordering.                                             *)
(***************************************************************************)
\* one layer exists by construction
InitLayers == <<[id |-> 1, order |-> 0]>>

HasLayer(ls, id) == \E i \in 1..Len(ls) : ls[i].id = id
OrderOf(ls, id) == (CHOOSE l \in {ls[i] : i \in 1..Len(ls)} : l.id = id).order

\* a reorder that writes newOrder and touches no other layer
ReorderOverwrites(ls, id, newOrder) ==
  [i \in 1..Len(ls) |-> IF ls[i].id = id THEN [ls[i] EXCEPT !.order = newOrder] ELSE ls[i]]

\* reorder(id, newOrder): an insertion.  The layer goes to the target position
\* (brought into 0..n-1) and the layers between its old and its new position
\* move one place towards the old one; NotFound changes nothing.
Reorder(ls, id, newOrder) ==
  IF ~HasLayer(ls, id) THEN ls
  ELSE LET old == OrderOf(ls, id)
           target == IF newOrder < 0 THEN 0
                     ELSE IF newOrder > Len(ls) - 1 THEN Len(ls) - 1
                     ELSE newOrder
           Moved(l) ==
             IF l.id = id THEN [l EXCEPT !.order = target]
             ELSE IF old < l.order /\ l.order <= target THEN [l EXCEPT !.order = @ - 1]
             ELSE IF target <= l.order /\ l.order < old THEN [l EXCEPT !.order = @ + 1]
             ELSE l
       IN [i \in 1..Len(ls) |-> Moved(ls[i])]

(***************************************************************************)
(* Export ("part_001" only).  The strokes of strokesRef are painted on a   *)
(* temporary canvas; png and pdf save that canvas, svg writes one path per *)
(* stroke of more than one point.  jsPDF may throw (pdfThrows): the error  *)
(* is caught and reported with alert().                                    *)
(***************************************************************************)
ExportFormats == {"png", "svg", "pdf"}

\* an export that hands the strokes over and leaves the store empty
ExportCanvasDrains(cs, format, pdfThrows) ==
  [cs EXCEPT !.strokes = <<>>,
             !.saved = Append(@, [format |-> format,
                                  paths |-> [i \in 1..Len(cs.strokes) |-> Painted(cs.strokes[i])]])]

ExportCanvas(cs, format, pdfThrows) ==
  LET tempCanvas == [i \in 1..Len(cs.strokes) |-> Painted(cs.strokes[i])]
      drawn == SelectSeq(cs.strokes, LAMBDA stroke : Len(stroke.points) > 1)
      svgContent == [i \in 1..Len(drawn) |-> Painted(drawn[i])]
  IN CASE format = "png" ->
            [cs EXCEPT !.saved = Append(@, [format |-> "png", paths |-> tempCanvas])]
       [] format = "svg" ->
            [cs EXCEPT !.saved = Append(@, [format |-> "svg", paths |-> svgContent])]
       [] format = "pdf" /\ ~pdfThrows ->
            [cs EXCEPT !.saved = Append(@, [format |-> "pdf", paths |-> tempCanvas])]
       [] OTHER -> [cs EXCEPT !.alerts = @ + 1]

(***************************************************************************)
(* The relay (server, not part of the client sources): it attaches the     *)
(* sender's id and forwards to every other participant; draw:start and     *)
(* draw:move reach the listeners with a points list and strokeWidth.       *)
(***************************************************************************)
Relay(sender, ev) ==
  CASE ev.type = "draw:start" ->
         [type |-> "draw:start", userId |-> sender,
          points |-> <<[x |-> ev.x, y |-> ev.y]>>, color |-> ev.color,
          strokeWidth |-> ev.width, isEraser |-> ev.isEraser]
    [] ev.type = "draw:move" ->
         [type |-> "draw:move", userId |-> sender,
          points |-> <<[x |-> ev.x, y |-> ev.y]>>]
    [] ev.type = "draw:end" -> [type |-> "draw:end", userId |-> sender]
    [] OTHER -> [type |-> "draw:clear"]

RelayAll(sender, evs) == [i \in 1..Len(evs) |-> Relay(sender, evs[i])]

(***************************************************************************)
(* Inputs of the environment.                                              *)
(***************************************************************************)
\* the points lists an inbound draw:start / draw:move may carry
PointLists == {<<>>} \cup {<<p>> : p \in Points}

StartData(p, pts, st) ==
  [type |-> "draw:start", userId |-> p, points |-> pts, color |-> st.color,
   strokeWidth |-> st.width, isEraser |-> st.isEraser]
MoveData(p, pts) == [type |-> "draw:move", userId |-> p, points |-> pts]
EndData(p) == [type |-> "draw:end", userId |-> p]

\* malformed payloads: without the points list, without the sender id
StartNoPoints(p, st) ==
  [type |-> "draw:start", userId |-> p, color |-> st.color,
   strokeWidth |-> st.width, isEraser |-> st.isEraser]
StartNoUserId(pts, st) ==
  [type |-> "draw:start", points |-> pts, color |-> st.color,
   strokeWidth |-> st.width, isEraser |-> st.isEraser]
MoveNoPoints(p) == [type |-> "draw:move", userId |-> p]
MoveNoUserId(pts) == [type |-> "draw:move", points |-> pts]
Malformed(data) == ~HasPoints(data) \/ "userId" \notin DOMAIN data

\* the colours the colour-store operations are called with
ColorValues == 0..21
PickedColors == {1, 5, 10, 11, 20, 21}

\* the palettes loadPalette is given: two of the predefined palettes (8
\* distinct colours each), the only ones ColorPalette passes, and two more the
\* signature (palette: ColorPalette) admits: a colour twice, 21 colours
Predefined ==
  {[id |-> "basic", colors |-> <<0, 1, 2, 3, 4, 5, 6, 7>>],
   [id |-> "pastel", colors |-> <<8, 9, 10, 11, 12, 13, 14, 15>>]}
Palettes ==
  Predefined \cup {[id |-> "twice", colors |-> <<1, 2, 1>>],
                   [id |-> "wide", colors |-> [i \in 1..21 |-> i]]}

\* stores the operations lead to from the initial one: after setCurrentColor of
\* 1..10 (recentColors full), after addToCustomPalette of 1..19 and of 1..20
\* (customPalette one short of full, and full)
StartStores ==
  {InitColorStore,
   [currentColor |-> 10, recentColors |-> [i \in 1..10 |-> 11 - i], customPalette |-> <<>>],
   [currentColor |-> 0, recentColors |-> <<>>, customPalette |-> [i \in 1..19 |-> i]],
   [currentColor |-> 10, recentColors |-> [i \in 1..10 |-> 11 - i],
    customPalette |-> [i \in 1..20 |-> i]]}

\* valid starting configurations: 1..MaxLayers layers, ids 1..n in creation
\* order, order values unique in 0..MaxLayers
UniqueOrders(ls) ==
  \A i \in 1..Len(ls), j \in 1..Len(ls) : i # j => ls[i].order # ls[j].order
LayerConfigs ==
  {ls \in UNION {[1..n -> [id : 1..MaxLayers, order : 0..MaxLayers]] : n \in 1..MaxLayers} :
     /\ \A i \in 1..Len(ls) : ls[i].id = i
     /\ UniqueOrders(ls)}
\* target positions, in range and out of range
TargetOrders == -1..(MaxLayers + 1)

\* strokes as the relay's snapshot holds them
SnapA == [points |-> <<P0>>, color |-> "#f00", strokeWidth |-> 2, isEraser |-> FALSE]
SnapB == [points |-> <<P0, P1>>, color |-> "black", strokeWidth |-> 4, isEraser |-> TRUE]
Snapshots == {<<>>, <<SnapA>>, <<SnapA, SnapB>>, <<SnapA, SnapB, SnapA>>}

(***************************************************************************)
(* State.                                                                  *)
(*   client  each participant's component state                            *)
(*   chan    chan[s][r]: relayed events of sender s not yet delivered to r *)
(*   hist    history kept for stating the properties (never read by the    *)
(*           handlers), per participant:                                   *)
(*             owner     origin of each stroke of the store, in parallel   *)
(*             drawn     the points the pointer gave the gesture under way *)
(*             heard     per remote id, the reducer's view of its stroke:  *)
(*                       the latest start's points and style, then the     *)
(*                       points of the moves delivered after it            *)
(*             stale     the clear ("drawClear", "clearCanvas") processed  *)
(*                       since the local stroke under way was begun, or "" *)
(*             abandoned point values of remote strokes superseded by a    *)
(*                       new start of the same id                          *)
(*             legit     point values that came in any other way           *)
(*             gestures  gestures begun                                    *)
(*             wire      the points of the draw:start and draw:move events *)
(*                       emitted for the gesture under way                 *)
(*             loads     snapshot responses applied to the store           *)
(*   last    the handler that ran last, for whom, and what held before it  *)
(*   steps   handlers run so far (Spec)                                    *)
(*   colorStore  the state of useColorStore                                *)
(*   layers  the layers of the Layer Manager                               *)
(*   server  the relay's side of hydration (SpecLate), with a tag naming   *)
(*           each finalized stroke: held, the finalized strokes the relay  *)
(*           holds; served and response, whether it has answered Me's      *)
(*           request for the snapshot and with what; and history: ids, the *)
(*           tags of the strokes of Me's store, in order; gone, the tags   *)
(*           of the strokes finalized before a clear Me has processed;     *)
(*           next, the tag of the next stroke                              *)
(*   call    the colour-store or layer operation called last and its       *)
(*           argument, and                                                 *)
(*           history kept for stating the properties: stamp[c], the time   *)
(*           colour c was last used, for the colours used since the recent *)
(*           colours were last cleared, and clock, the time now            *)
(***************************************************************************)
VARIABLES client, chan, hist, last, steps, colorStore, call, layers, server

vars == <<client, chan, hist, last, steps, colorStore, call, layers, server>>

\* the history that goes with a store of StartStores
StartCall(st) ==
  [op |-> "init", arg |-> 0,
   stamp |-> [c \in {st.recentColors[i] : i \in 1..Len(st.recentColors)} |-> c],
   clock |-> Len(st.recentColors)]

\* the time colour c was last used; 0: never, or before the last clear
Stamp(c) == IF c \in DOMAIN call.stamp THEN call.stamp[c] ELSE 0

\* the strokes of a snapshot, tagged from..
Tagged(snapshot, from) ==
  [i \in 1..Len(snapshot) |-> [tag |-> from + i - 1, stroke |-> snapshot[i]]]
Tags(held) == [i \in 1..Len(held) |-> held[i].tag]
Untagged(held) == [i \in 1..Len(held) |-> held[i].stroke]

\* the relay holding the strokes of snapshot, the request not yet answered
InitServer(snapshot) ==
  [held |-> Tagged(snapshot, 1), served |-> FALSE, response |-> <<>>,
   ids |-> <<>>, gone |-> {}, next |-> Len(snapshot) + 1]

\* nothing outside the drawing component is in use
Idle ==
  /\ colorStore = InitColorStore
  /\ call = StartCall(InitColorStore)
  /\ layers = InitLayers
  /\ server = InitServer(<<>>)

InitHist ==
  [owner |-> <<>>, drawn |-> <<>>, heard |-> EmptyTable, stale |-> "",
   abandoned |-> {}, legit |-> {}, gestures |-> 0, wire |-> <<>>, loads |-> 0]

NoChan == [s \in Clients |-> [r \in Clients |-> <<>>]]

\* op ran for participant c (about remote id); before it, busy: a local stroke
\* was under way, open: the ids of the Remote Stroke Table, len: the store's
\* length; bad: the payload it was given was malformed
Last(op, c, id, cs) ==
  [op |-> op, c |-> c, id |-> id,
   busy |-> cs.currentStroke # Null,
   open |-> DOMAIN cs.remoteStrokes,
   len |-> Len(cs.strokes),
   bad |-> FALSE]

\* the points the draw:start and draw:move events of out carry, in order
Sent(out) ==
  LET sel == SelectSeq(out, LAMBDA ev : ev.type \in {"draw:start", "draw:move"})
  IN [i \in 1..Len(sel) |-> [x |-> sel[i].x, y |-> sel[i].y]]

PointSet(points) == {points[i] : i \in 1..Len(points)}

\* how many points the local stroke under way holds
CurLen(cs) == IF cs.currentStroke = Null THEN 0 ELSE Len(cs.currentStroke[1].points)

Set(c, cs2, h2, l) ==
  /\ client' = [client EXCEPT ![c] = cs2]
  /\ hist' = [hist EXCEPT ![c] = h2]
  /\ last' = l

(***************************************************************************)
(* Steps of one participant c: the handler applied to its state, and the   *)
(* history kept beside it.                                                 *)
(***************************************************************************)
DoMyUserJoined(c) ==
  /\ client[c].myUser = "null"
  /\ Set(c, OnMyUserJoined(Enter(client[c])), hist[c], Last("joined", c, "", client[c]))

DoJoinMyUser(c, isConnectedToServer) ==
  Set(c, JoinMyUser(Enter(client[c]), isConnectedToServer), hist[c],
      Last("join", c, IF isConnectedToServer THEN "connected" ELSE "disconnected",
           client[c]))

DoMouseDown(c, coords, style) ==
  LET cs == client[c]
      h == hist[c]
      cs2 == OnMouseDown(Enter(cs), coords, style)
  IN /\ MaxPoints >= 2
     /\ Set(c, cs2,
            IF cs.myUser = "null" THEN h
            ELSE [h EXCEPT !.drawn = <<coords>>, !.stale = "",
                           !.legit = @ \cup {coords}, !.gestures = @ + 1,
                           !.wire = Sent(cs2.out)],
            Last("mouseDown", c, "", cs))

\* the canvas delivers mousemove only while the listener is attached
DoMouseMove(c, coords) ==
  LET cs == client[c]
      h == hist[c]
      cs2 == OnMouseMove(Enter(cs), coords)
  IN /\ cs.listening
     /\ CurLen(cs) < MaxPoints
     /\ Set(c, cs2,
            [h EXCEPT !.drawn = Append(@, coords), !.legit = @ \cup {coords},
                      !.wire = @ \o Sent(cs2.out)],
            Last("mouseMove", c, "", cs))

\* the pointer is released over the canvas: onMouseUp runs if the mouseup
\* listener is attached, and no handler runs if it is not
DoMouseUp(c) ==
  LET cs == client[c]
      h == hist[c]
  IN /\ (cs.listening => Len(cs.strokes) < MaxStrokes)
     /\ Set(c, IF cs.listening THEN OnMouseUp(Enter(cs)) ELSE Enter(cs),
            IF cs.listening
            THEN [h EXCEPT !.owner = IF cs.currentStroke # Null THEN Append(@, "local") ELSE @,
                           !.drawn = <<>>, !.stale = "", !.wire = <<>>]
            ELSE h,
            Last("mouseUp", c, "", cs))

\* only "part_001" has the effect that calls setCanvasDimensions
DoResize(c) ==
  /\ client[c].build = "part_001"
  /\ Set(c, SetCanvasDimensions(Enter(client[c])), hist[c], Last("resize", c, "", client[c]))

DoStrokesLoaded(c, data) ==
  LET cs == client[c]
      h == hist[c]
      n == IF data = <<>> THEN 0 ELSE Len(data[1].strokes)
  IN /\ cs.fetches > 0
     /\ Len(cs.strokes) + n <= MaxStrokes
     /\ Set(c, OnStrokesLoaded(Enter(cs), data),
            [h EXCEPT !.owner = @ \o [i \in 1..n |-> "snapshot"],
                      !.legit = @ \cup UNION {PointSet(data[1].strokes[i].points) : i \in 1..n},
                      !.loads = IF data = <<>> THEN @ ELSE @ + 1],
            Last("hydrate", c, "", cs))

\* the history follows the well-formed events only
DoDrawStart(c, data) ==
  LET cs == client[c]
      h == hist[c]
      p == UserId(data)
      pts == IF HasPoints(data) THEN data.points ELSE <<>>
  IN /\ Len(pts) <= MaxPoints
     /\ (cs.build = "index" => CurLen(cs) + Len(pts) <= MaxPoints)
     /\ Set(c, OnDrawStart(Enter(cs), data),
            IF Malformed(data) THEN h
            ELSE [h EXCEPT !.heard = Put(@, p, Stroke(data.points, data.color,
                                                      data.strokeWidth, data.isEraser)),
                           !.abandoned = IF p \in DOMAIN h.heard
                                         THEN @ \cup PointSet(h.heard[p].points) ELSE @],
            [Last("drawStart", c, p, cs) EXCEPT !.bad = Malformed(data)])

DoDrawMove(c, data) ==
  LET cs == client[c]
      h == hist[c]
      p == UserId(data)
      pts == IF HasPoints(data) THEN data.points ELSE <<>>
  IN /\ (p \in DOMAIN cs.remoteStrokes =>
           /\ Len(cs.remoteStrokes[p].points) + Len(pts) <= MaxPoints
           /\ (cs.build = "index" => CurLen(cs) + Len(pts) <= MaxPoints))
     /\ Set(c, OnDrawMove(Enter(cs), data),
            IF ~Malformed(data) /\ p \in DOMAIN h.heard
            THEN [h EXCEPT !.heard[p].points = @ \o data.points]
            ELSE h,
            [Last("drawMove", c, p, cs) EXCEPT !.bad = Malformed(data)])

DoDrawEnd(c, data) ==
  LET cs == client[c]
      h == hist[c]
      p == data.userId
  IN /\ (p \in DOMAIN cs.remoteStrokes => Len(cs.strokes) < MaxStrokes)
     /\ Set(c, OnDrawEnd(Enter(cs), data),
            IF p \in DOMAIN h.heard
            THEN [h EXCEPT !.heard = Delete(@, p),
                           !.legit = @ \cup PointSet(h.heard[p].points),
                           !.owner = IF p \in DOMAIN cs.remoteStrokes
                                     THEN Append(@, "remote") ELSE @]
            ELSE h,
            Last("drawEnd", c, p, cs))

DoDrawClear(c) ==
  LET cs == client[c]
      h == hist[c]
  IN Set(c, OnDrawClear(Enter(cs)),
         [h EXCEPT !.owner = <<>>, !.heard = EmptyTable,
                   !.stale = IF cs.currentStroke # Null THEN "drawClear" ELSE @],
         Last("drawClear", c, "", cs))

DoUndo(c) ==
  LET cs == client[c]
      h == hist[c]
  IN Set(c, OnKeyDown(Enter(cs)), [h EXCEPT !.owner = Pop(@)], Last("undo", c, "", cs))

\* the export buttons exist in "part_001" only
DoExport(c, format, pdfThrows) ==
  /\ client[c].build = "part_001"
  /\ Set(c, ExportCanvas(Enter(client[c]), format, pdfThrows), hist[c],
         Last("export", c, format, client[c]))

DoClearCanvas(c) ==
  LET cs == client[c]
      h == hist[c]
  IN Set(c, ClearCanvas(Enter(cs)),
         [h EXCEPT !.owner = <<>>, !.heard = EmptyTable,
                   !.stale = IF cs.currentStroke # Null THEN "clearCanvas" ELSE @],
         Last("clearCanvas", c, "", cs))

(***************************************************************************)
(* Spec: one participant (Me) whose pointer, keyboard and buttons act, and *)
(* an environment that delivers any inbound event at any time.             *)
(***************************************************************************)
Init ==
  /\ \E b \in Builds, u \in {"null", "user"} :
       client = [c \in Clients |-> [InitClient(b) EXCEPT !.myUser = u]]
  /\ chan = NoChan
  /\ hist = [c \in Clients |-> InitHist]
  /\ last = Last("init", Me, "", InitClient("index"))
  /\ steps = 0
  /\ Idle

Tick ==
  /\ steps < MaxSteps
  /\ steps' = steps + 1
  /\ UNCHANGED <<chan, colorStore, call, layers, server>>

MyUserJoined == Tick /\ DoMyUserJoined(Me)
MouseDown == Tick /\ \E coords \in Points, style \in Styles : DoMouseDown(Me, coords, style)
MouseMove == Tick /\ \E coords \in Points : DoMouseMove(Me, coords)
MouseUp == Tick /\ DoMouseUp(Me)
Resize == Tick /\ DoResize(Me)
StrokesLoaded ==
  Tick /\ \E data \in {<<>>} \cup {<<[strokes |-> s]>> : s \in Snapshots} :
            DoStrokesLoaded(Me, data)
RemoteStart ==
  Tick /\ \E p \in Participants, pts \in PointLists, st \in Styles :
            DoDrawStart(Me, StartData(p, pts, st))
RemoteMove ==
  Tick /\ \E p \in Participants, pts \in PointLists : DoDrawMove(Me, MoveData(p, pts))
RemoteEnd == Tick /\ \E p \in Participants : DoDrawEnd(Me, EndData(p))
RemoteClear == Tick /\ DoDrawClear(Me)
UndoLast == Tick /\ DoUndo(Me)
ClearButton == Tick /\ DoClearCanvas(Me)

Next ==
  \/ MyUserJoined
  \/ MouseDown
  \/ MouseMove
  \/ MouseUp
  \/ Resize
  \/ StrokesLoaded
  \/ RemoteStart
  \/ RemoteMove
  \/ RemoteEnd
  \/ RemoteClear
  \/ UndoLast
  \/ ClearButton

Spec == Init /\ [][Next]_vars

(***************************************************************************)
(* SpecExport: Spec for the version with export ("part_001"), with the     *)
(* export buttons.                                                         *)
(***************************************************************************)
InitExport ==
  /\ \E u \in {"null", "user"} :
       client = [c \in Clients |-> [InitClient("part_001") EXCEPT !.myUser = u]]
  /\ chan = NoChan
  /\ hist = [c \in Clients |-> InitHist]
  /\ last = Last("init", Me, "", InitClient("index"))
  /\ steps = 0
  /\ Idle

Export ==
  Tick /\ \E format \in ExportFormats, pdfThrows \in BOOLEAN : DoExport(Me, format, pdfThrows)

NextExport ==
  \/ MyUserJoined
  \/ MouseDown
  \/ MouseMove
  \/ MouseUp
  \/ Resize
  \/ StrokesLoaded
  \/ RemoteStart
  \/ RemoteMove
  \/ RemoteEnd
  \/ RemoteClear
  \/ UndoLast
  \/ ClearButton
  \/ Export

SpecExport == InitExport /\ [][NextExport]_vars

(***************************************************************************)
(* SpecAll: Spec in a development build as well as a production build (the *)
(* mount effects, so the snapshot request, may run twice), with an         *)
(* environment that also delivers malformed draw:start and draw:move       *)
(* payloads.                                                               *)
(***************************************************************************)
InitAll ==
  /\ \E b \in Builds, u \in {"null", "user"}, m \in Mounts :
       client = [c \in Clients |-> [InitClient(b) EXCEPT !.myUser = u, !.fetches = m]]
  /\ chan = NoChan
  /\ hist = [c \in Clients |-> InitHist]
  /\ last = Last("init", Me, "", InitClient("index"))
  /\ steps = 0
  /\ Idle

RemoteStartMalformed ==
  Tick /\ \E st \in Styles :
            \/ \E p \in Participants : DoDrawStart(Me, StartNoPoints(p, st))
            \/ \E pts \in PointLists : DoDrawStart(Me, StartNoUserId(pts, st))
RemoteMoveMalformed ==
  Tick /\ \/ \E p \in Participants : DoDrawMove(Me, MoveNoPoints(p))
          \/ \E pts \in PointLists : DoDrawMove(Me, MoveNoUserId(pts))

NextAll ==
  \/ MyUserJoined
  \/ MouseDown
  \/ MouseMove
  \/ MouseUp
  \/ Resize
  \/ StrokesLoaded
  \/ RemoteStart
  \/ RemoteMove
  \/ RemoteEnd
  \/ RemoteStartMalformed
  \/ RemoteMoveMalformed
  \/ RemoteClear
  \/ UndoLast
  \/ ClearButton

SpecAll == InitAll /\ [][NextAll]_vars

(***************************************************************************)
(* SpecColors: the colour store alone, from the stores of StartStores,     *)
(* under any MaxColorSteps operations.  setCurrentColor and addRecentColor *)
(* use a colour: they stamp it with the time.                              *)
(***************************************************************************)
InitColors ==
  /\ client = [c \in Clients |-> InitClient("part_001")]
  /\ chan = NoChan
  /\ hist = [c \in Clients |-> InitHist]
  /\ last = Last("init", Me, "", InitClient("part_001"))
  /\ steps = 0
  /\ \E st \in StartStores : colorStore = st /\ call = StartCall(st)
  /\ layers = InitLayers
  /\ server = InitServer(<<>>)

Called(op, arg, st2) ==
  /\ steps < MaxColorSteps
  /\ steps' = steps + 1
  /\ colorStore' = st2
  /\ call' = [call EXCEPT !.op = op, !.arg = arg]
  /\ UNCHANGED <<client, chan, hist, last, layers, server>>

Used(op, color, st2) ==
  /\ steps < MaxColorSteps
  /\ steps' = steps + 1
  /\ colorStore' = st2
  /\ call' = [op |-> op, arg |-> color,
              stamp |-> [c \in DOMAIN call.stamp \cup {color} |->
                          IF c = color THEN call.clock + 1 ELSE call.stamp[c]],
              clock |-> call.clock + 1]
  /\ UNCHANGED <<client, chan, hist, last, layers, server>>

CallSetCurrentColor ==
  \E color \in PickedColors : Used("setCurrentColor", color, SetCurrentColor(colorStore, color))
CallAddRecentColor ==
  \E color \in PickedColors : Used("addRecentColor", color, AddRecentColor(colorStore, color))
CallAddToCustomPalette ==
  \E color \in PickedColors :
    Called("addToCustomPalette", color, AddToCustomPalette(colorStore, color))
CallRemoveFromCustomPalette ==
  \E color \in PickedColors :
    Called("removeFromCustomPalette", color, RemoveFromCustomPalette(colorStore, color))
CallClearRecentColors ==
  /\ steps < MaxColorSteps
  /\ steps' = steps + 1
  /\ colorStore' = ClearRecentColors(colorStore)
  /\ call' = [op |-> "clearRecentColors", arg |-> 0,
              stamp |-> [c \in {} |-> 0], clock |-> call.clock]
  /\ UNCHANGED <<client, chan, hist, last, layers, server>>
CallClearCustomPalette == Called("clearCustomPalette", 0, ClearCustomPalette(colorStore))
CallLoadPalette ==
  \E palette \in Palettes : Called("loadPalette", 0, LoadPalette(colorStore, palette))

NextColors ==
  \/ CallSetCurrentColor
  \/ CallAddRecentColor
  \/ CallAddToCustomPalette
  \/ CallRemoveFromCustomPalette
  \/ CallClearRecentColors
  \/ CallClearCustomPalette
  \/ CallLoadPalette

SpecColors == InitColors /\ [][NextColors]_vars

(***************************************************************************)
(* SpecLayers: the Layer Manager alone, from any valid configuration,      *)
(* under any MaxLayerSteps reorder calls (of a layer, or of an id no layer *)
(* has: 0).                                                                *)
(***************************************************************************)
InitLayerManager ==
  /\ client = [c \in Clients |-> InitClient("part_001")]
  /\ chan = NoChan
  /\ hist = [c \in Clients |-> InitHist]
  /\ last = Last("init", Me, "", InitClient("part_001"))
  /\ steps = 0
  /\ colorStore = InitColorStore
  /\ call = StartCall(InitColorStore)
  /\ layers \in LayerConfigs
  /\ server = InitServer(<<>>)

CallReorder ==
  /\ steps < MaxLayerSteps
  /\ steps' = steps + 1
  /\ \E id \in 0..MaxLayers, newOrder \in TargetOrders :
       /\ layers' = Reorder(layers, id, newOrder)
       /\ call' = [call EXCEPT !.op = IF HasLayer(layers, id) THEN "reorder" ELSE "NotFound",
                               !.arg = newOrder]
  /\ UNCHANGED <<client, chan, hist, last, colorStore, server>>

NextLayers == CallReorder

SpecLayers == InitLayerManager /\ [][NextLayers]_vars

(***************************************************************************)
(* SpecJoin: Spec, and the user asking to join (joinMyUser) at any time,   *)
(* the socket connected or not.                                            *)
(***************************************************************************)
\* the client starts with no user
InitJoin ==
  /\ \E b \in Builds : client = [c \in Clients |-> InitClient(b)]
  /\ chan = NoChan
  /\ hist = [c \in Clients |-> InitHist]
  /\ last = Last("init", Me, "", InitClient("index"))
  /\ steps = 0
  /\ Idle

JoinClicked == Tick /\ \E isConnectedToServer \in BOOLEAN : DoJoinMyUser(Me, isConnectedToServer)

NextJoin ==
  \/ JoinClicked
  \/ MyUserJoined
  \/ MouseDown
  \/ MouseMove
  \/ MouseUp
  \/ Resize
  \/ StrokesLoaded
  \/ RemoteStart
  \/ RemoteMove
  \/ RemoteEnd
  \/ RemoteClear
  \/ UndoLast
  \/ ClearButton

SpecJoin == InitJoin /\ [][NextJoin]_vars

(***************************************************************************)
(* SpecLate: hydration racing the live events.  Me has asked for the       *)
(* snapshot at mount; the relay (not in the sources: modelled from the     *)
(* specification) holds the finalized strokes, appends a stroke when its   *)
(* draw:end passes, empties the list on draw:clear, and answers the        *)
(* request at some moment with the list it holds then; the response        *)
(* reaches Me at any later moment.  The events of one sender arrive in     *)
(* order, so the relay answers Me's request before it sees a draw:clear Me *)
(* emits, and never holds a stroke Me drew when it answers.                *)
(***************************************************************************)
\* the stroke the relay holds for an entry built from the events it relayed
ToSnapshot(stroke) ==
  [points |-> stroke.points, color |-> stroke.color, strokeWidth |-> stroke.width,
   isEraser |-> stroke.isEraser]

InitLate ==
  /\ \E b \in Builds, u \in {"null", "user"} :
       client = [c \in Clients |-> [InitClient(b) EXCEPT !.myUser = u]]
  /\ chan = NoChan
  /\ hist = [c \in Clients |-> InitHist]
  /\ last = Last("init", Me, "", InitClient("index"))
  /\ steps = 0
  /\ colorStore = InitColorStore
  /\ call = StartCall(InitColorStore)
  /\ layers = InitLayers
  /\ \E snapshot \in {<<>>, <<SnapA>>, <<SnapA, SnapB>>} : server = InitServer(snapshot)

LateTick ==
  /\ steps < MaxSteps
  /\ steps' = steps + 1
  /\ UNCHANGED <<chan, colorStore, call, layers>>

\* the relay answers the request
Serve ==
  /\ ~server.served
  /\ server' = [server EXCEPT !.served = TRUE, !.response = server.held]
  /\ UNCHANGED <<client, chan, hist, last, steps, colorStore, call, layers>>

LateStrokesLoaded ==
  /\ LateTick
  /\ server.served
  /\ DoStrokesLoaded(Me, <<[strokes |-> Untagged(server.response)]>>)
  /\ server' = [server EXCEPT !.ids = @ \o Tags(server.response)]

LateMouseUp ==
  /\ LateTick
  /\ DoMouseUp(Me)
  /\ server' = IF Len(client'[Me].strokes) > Len(client[Me].strokes)
               THEN [server EXCEPT !.ids = Append(@, server.next), !.next = @ + 1]
               ELSE server

LateRemoteEnd ==
  /\ LateTick
  /\ \E p \in Participants :
       /\ DoDrawEnd(Me, EndData(p))
       /\ server' =
            IF p \in DOMAIN hist[Me].heard
            THEN [server EXCEPT
                    !.held = Append(@, [tag |-> server.next,
                                        stroke |-> ToSnapshot(hist[Me].heard[p])]),
                    !.ids = IF Len(client'[Me].strokes) > Len(client[Me].strokes)
                            THEN Append(@, server.next) ELSE @,
                    !.next = @ + 1]
            ELSE server

LateRemoteClear ==
  /\ LateTick
  /\ DoDrawClear(Me)
  /\ server' = [server EXCEPT !.held = <<>>, !.ids = <<>>, !.gone = 1..(server.next - 1)]

LateClearButton ==
  /\ LateTick
  /\ DoClearCanvas(Me)
  /\ server' = [server EXCEPT !.served = TRUE,
                              !.response = IF server.served THEN @ ELSE server.held,
                              !.held = <<>>, !.ids = <<>>,
                              !.gone = 1..(server.next - 1)]

LateUndo ==
  /\ LateTick
  /\ DoUndo(Me)
  /\ server' = [server EXCEPT !.ids = Pop(@)]

NextLate ==
  \/ MyUserJoined
  \/ MouseDown
  \/ MouseMove
  \/ LateMouseUp
  \/ Resize
  \/ Serve
  \/ LateStrokesLoaded
  \/ RemoteStart
  \/ RemoteMove
  \/ LateRemoteEnd
  \/ LateRemoteClear
  \/ LateUndo
  \/ LateClearButton

SpecLate == InitLate /\ [][NextLate]_vars

(***************************************************************************)
(* SpecNet: every participant draws, and the relay forwards each emitted   *)
(* event to every other participant.  chan[s][r] is first in, first out:   *)
(* one sender's events arrive in send order, and deliveries of different   *)
(* senders interleave freely.  No undo and no clear.                       *)
(***************************************************************************)
Broadcast(c) ==
  /\ chan' = [chan EXCEPT ![c] =
                [r \in Clients |-> IF r = c THEN chan[c][r]
                                   ELSE chan[c][r] \o RelayAll(c, client'[c].out)]]
  /\ UNCHANGED <<steps, colorStore, call, layers, server>>

InitNet ==
  /\ \E b \in Builds :
       client = [c \in Clients |-> [InitClient(b) EXCEPT !.myUser = "user"]]
  /\ chan = NoChan
  /\ hist = [c \in Clients |-> InitHist]
  /\ last = Last("init", Me, "", InitClient("index"))
  /\ steps = 0
  /\ Idle

NetMouseDown ==
  \E c \in Clients, coords \in Points, style \in Styles :
    /\ hist[c].gestures < MaxGestures
    /\ ~client[c].listening
    /\ DoMouseDown(c, coords, style)
    /\ Broadcast(c)
NetMouseMove == \E c \in Clients, coords \in Points : DoMouseMove(c, coords) /\ Broadcast(c)
NetMouseUp == \E c \in Clients : client[c].listening /\ DoMouseUp(c) /\ Broadcast(c)

Received(s, r) ==
  /\ chan' = [chan EXCEPT ![s][r] = Tail(@)]
  /\ UNCHANGED <<steps, colorStore, call, layers, server>>

DeliverStart ==
  \E s \in Clients, r \in Clients :
    /\ chan[s][r] # <<>>
    /\ Head(chan[s][r]).type = "draw:start"
    /\ DoDrawStart(r, Head(chan[s][r]))
    /\ Received(s, r)
DeliverMove ==
  \E s \in Clients, r \in Clients :
    /\ chan[s][r] # <<>>
    /\ Head(chan[s][r]).type = "draw:move"
    /\ DoDrawMove(r, Head(chan[s][r]))
    /\ Received(s, r)
DeliverEnd ==
  \E s \in Clients, r \in Clients :
    /\ chan[s][r] # <<>>
    /\ Head(chan[s][r]).type = "draw:end"
    /\ DoDrawEnd(r, Head(chan[s][r]))
    /\ Received(s, r)

NextNet ==
  \/ NetMouseDown
  \/ NetMouseMove
  \/ NetMouseUp
  \/ DeliverStart
  \/ DeliverMove
  \/ DeliverEnd

SpecNet == InitNet /\ [][NextNet]_vars

(***************************************************************************)
(* Properties.  S, H: the component state and the history of Me.           *)
(***************************************************************************)
S == client[Me]
H == hist[Me]

LastStroke(strokes) == strokes[Len(strokes)]

\* the store grew by exactly one stroke, at its end
Appended(before, after) ==
  /\ Len(after) = Len(before) + 1
  /\ SubSeq(after, 1, Len(before)) = before

\* C1: for every local gesture begin(origin), extend(p1) ... extend(pn), end(),
\* the stroke end() appends to the Stroke Store has points exactly
\* [origin, p1, ..., pn], none added, dropped or repeated.
C1_GesturePointsExact ==
  [][(last'.op = "mouseUp" /\ last'.busy)
       => /\ Appended(S.strokes, S'.strokes)
          /\ LastStroke(S'.strokes).points = H.drawn]_vars

\* the store after an undo that removes the most recently appended stroke of
\* local origin and nothing else
RECURSIVE LastLocal(_)
LastLocal(owner) ==
  IF owner = <<>> THEN 0
  ELSE IF owner[Len(owner)] = "local" THEN Len(owner)
  ELSE LastLocal(SubSeq(owner, 1, Len(owner) - 1))

WithoutLastLocal(strokes, owner) ==
  LET k == LastLocal(owner)
  IN IF k = 0 THEN strokes
     ELSE SubSeq(strokes, 1, k - 1) \o SubSeq(strokes, k + 1, Len(strokes))

\* C2: undoLast never removes a stroke that did not originate from the local
\* participant: it removes only the most recently appended local-origin stroke
\* and leaves every remote-origin (or hydrated) stroke in place.
C2_UndoOnlyLocal ==
  [][last'.op = "undo" => S'.strokes = WithoutLastLocal(S.strokes, H.owner)]_vars

\* point values of the strokes the reducer holds in progress
HeardPoints == UNION {PointSet(H.heard[p].points) : p \in DOMAIN H.heard}

\* no point of a superseded remote stroke is in the store (a value that also
\* came in another way is not counted)
NoAbandonedPointStored ==
  \A i \in 1..Len(S.strokes) :
    (PointSet(S.strokes[i].points) \cap H.abandoned) \subseteq (H.legit \cup HeardPoints)

\* C3: after a second onRemoteStart(p) before any onRemoteEnd(p), the first
\* stroke's points are discarded: the stroke promoted by onRemoteEnd(p) holds
\* only the points of the second start and of the moves after it, and no point
\* of the first stroke ever reaches the Stroke Store.
C3_SecondStartDiscardsFirst ==
  [][/\ (last'.op = "drawEnd" /\ last'.id \in last'.open)
          => /\ last'.id \in DOMAIN H.heard
             /\ Appended(S.strokes, S'.strokes)
             /\ LastStroke(S'.strokes).points = H.heard[last'.id].points
     /\ NoAbandonedPointStored']_vars

\* C4: onRemoteMove for an id with no entry in the Remote Stroke Table changes
\* neither the table nor the Stroke Store, in whatever state it is delivered.
C4_MoveUnknownDrops ==
  [][(last'.op = "drawMove" /\ last'.id \notin last'.open)
       => /\ S'.remoteStrokes = S.remoteStrokes
          /\ S'.strokes = S.strokes]_vars

\* a move for an unknown id was delivered with strokes in the store and another
\* id's stroke in progress
C4_Witness ==
  /\ last.op = "drawMove"
  /\ last.id \notin last.open
  /\ last.open # {}
  /\ S.strokes # <<>>
  /\ DOMAIN S.remoteStrokes = last.open

\* C5: onRemoteEnd for an id with no entry in the Remote Stroke Table is a
\* no-op: the Stroke Store and the table are unchanged.
C5_EndUnknownNoOp ==
  [][(last'.op = "drawEnd" /\ last'.id \notin last'.open)
       => /\ S'.strokes = S.strokes
          /\ S'.remoteStrokes = S.remoteStrokes]_vars

\* hydrate([strokeA, strokeB]) then onRemoteEnd("u3") with no start of "u3":
\* the store is exactly the two hydrated strokes
C5_Witness ==
  /\ last.op = "drawEnd"
  /\ last.id = "u3"
  /\ "u3" \notin last.open
  /\ H.owner = <<"snapshot", "snapshot">>
  /\ S.strokes = <<Stroke(SnapA.points, SnapA.color, SnapA.strokeWidth, SnapA.isEraser),
                   Stroke(SnapB.points, SnapB.color, SnapB.strokeWidth, SnapB.isEraser)>>

\* C6: the stroke onRemoteEnd(p) appends has as points exactly the initial
\* points of p's latest onRemoteStart followed by the points of every
\* onRemoteMove(p) delivered after it, in order, with that start's color, width
\* and eraser flag; p's entry leaves the Remote Stroke Table in the same step.
C6_EndPromotesAccumulated ==
  [][(last'.op = "drawEnd" /\ last'.id \in last'.open)
       => /\ last'.id \in DOMAIN H.heard
          /\ S'.strokes = Append(S.strokes, H.heard[last'.id])
          /\ last'.id \notin DOMAIN S'.remoteStrokes
          /\ \A q \in last'.open \ {last'.id} :
               /\ q \in DOMAIN S'.remoteStrokes
               /\ S'.remoteStrokes[q] = S.remoteStrokes[q]]_vars

\* a remote stroke of a start and a move has just been promoted
C6_Witness ==
  /\ last.op = "drawEnd"
  /\ last.id \in last.open
  /\ S.strokes # <<>>
  /\ LastStroke(S.strokes).points = <<P0, P1>>
  /\ LastStroke(S.strokes).color = "#f00"
  /\ LastStroke(S.strokes).width = 2
  /\ last.id \notin DOMAIN S.remoteStrokes

\* C7: processing onRemoteClear from any reachable state leaves the Stroke
\* Store empty and the Remote Stroke Table empty and triggers exactly one full
\* repaint.
C7_RemoteClearEmpties ==
  last.op = "drawClear"
    => /\ S.strokes = <<>>
       /\ S.remoteStrokes = EmptyTable
       /\ S.redraws = 1

\* onRemoteClear() has run while "u2" had a stroke in progress and the store
\* held 3 finalized strokes
C7_Witness ==
  /\ last.op = "drawClear"
  /\ last.len = 3
  /\ "u2" \in last.open
  /\ S.strokes = <<>>

\* C8: onRemoteClear clears every participant's work in progress: no stroke that
\* was in progress when the clear was processed, a remote participant's or the
\* local participant's own, is later added to the Stroke Store with points
\* recorded before the clear.
C8_ClearDropsWorkInProgress ==
  [][/\ last'.op = "drawClear" => S'.remoteStrokes = EmptyTable
     /\ (last'.op = "mouseUp" /\ H.stale = "drawClear") => S'.strokes = S.strokes]_vars

\* C9: begin() while a local stroke is already in progress is a no-op: the
\* stroke in progress keeps all its points and is not replaced, and no
\* draw:start is emitted.
C9_BeginWhileBusyNoOp ==
  [][(last'.op = "mouseDown" /\ last'.busy)
       => /\ S'.currentStroke = S.currentStroke
          /\ S'.out = <<>>]_vars

\* every gesture has ended and every event has been delivered
Quiet ==
  /\ \A c \in Clients : client[c].currentStroke = Null
  /\ \A s \in Clients, r \in Clients : chan[s][r] = <<>>

\* C10: convergence: once every gesture has ended and every event has been
\* delivered, all participants hold the same strokes in the same order and
\* every Remote Stroke Table is empty.
C10_Convergence ==
  Quiet => \A c \in Clients, d \in Clients :
             /\ client[c].strokes = client[d].strokes
             /\ client[c].remoteStrokes = EmptyTable

\* C11: a malformed inbound event (a draw:start or draw:move whose payload
\* lacks the points list or the sender id) is dropped silently: the handler
\* raises no error and leaves the Stroke Store, the Remote Stroke Table and the
\* local builder exactly as before.
C11_MalformedDropped ==
  [][last'.bad
       => /\ ~S'.threw
          /\ S'.strokes = S.strokes
          /\ S'.remoteStrokes = S.remoteStrokes
          /\ S'.currentStroke = S.currentStroke]_vars

\* C12: no stroke with zero points is ever in the Stroke Store.
C12_NoZeroPointStroke ==
  \A i \in 1..Len(S.strokes) : Len(S.strokes[i].points) > 0

\* what a full repaint leaves on a canvas: the finalized strokes in insertion
\* order, then the remote strokes in progress
FullRepaint(strokes, table, order) ==
  [k \in 1..(Len(strokes) + Len(order)) |->
     LET stroke == IF k <= Len(strokes) THEN strokes[k]
                   ELSE table[order[k - Len(strokes)]]
     IN [color |-> IF stroke.isEraser THEN "white" ELSE stroke.color,
         width |-> stroke.width,
         path |-> stroke.points]]

\* C13: every operation that mutates the Stroke Store (hydrate, the append of
\* a local end or of a remote end, undoLast, clear) triggers exactly one full
\* repaint, so that after it the painted canvas reflects the new store.
C13_MutationRepaintsOnce ==
  [][S'.strokes # S.strokes
       => /\ S'.redraws = 1
          /\ S'.canvas = FullRepaint(S'.strokes, S'.remoteStrokes, S'.remoteOrder)]_vars

\* the strokes a snapshot gives the store
FromSnapshot(snapshot) ==
  [i \in 1..Len(snapshot) |->
     [points |-> snapshot[i].points, color |-> snapshot[i].color,
      width |-> snapshot[i].strokeWidth, isEraser |-> snapshot[i].isEraser]]

\* C14: hydrate is applied at most once per connection lifetime: the snapshot's
\* strokes are appended to the Stroke Store exactly once, in the order
\* received, followed by one full repaint.
C14_HydrateOnce ==
  [][(last'.op = "hydrate" /\ H'.loads > H.loads)
       => /\ H.loads = 0
          /\ \E snapshot \in Snapshots : S'.strokes = S.strokes \o FromSnapshot(snapshot)
          /\ S'.redraws = 1]_vars

\* C15: every full repaint paints all strokes of the Stroke Store in insertion
\* order and then every remote stroke in progress on top: after a handler that
\* repainted, the canvas is exactly the finalized strokes followed by the
\* strokes of the Remote Stroke Table.
C15_RepaintOrder ==
  S.redraws > 0
    => S.canvas = FullRepaint(S.strokes, S.remoteStrokes, S.remoteOrder)

\* a repaint of two finalized strokes under two remote strokes in progress
C15_Witness ==
  /\ S.redraws = 1
  /\ Len(S.strokes) = 2
  /\ Len(S.remoteOrder) = 2
  /\ Len(S.canvas) = 4
  /\ S.canvas[1].path = S.strokes[1].points
  /\ S.canvas[2].path = S.strokes[2].points

\* C16: a stroke is immutable once finalized: the Stroke Store changes only by
\* appending at its end (what it held stays as it was), by losing its last
\* element (undo) or by being emptied (clear).
C16_StoreAppendOnly ==
  [][\/ S'.strokes = S.strokes
     \/ /\ Len(S'.strokes) > Len(S.strokes)
        /\ SubSeq(S'.strokes, 1, Len(S.strokes)) = S.strokes
     \/ /\ last'.op = "undo"
        /\ S.strokes # <<>>
        /\ S'.strokes = SubSeq(S.strokes, 1, Len(S.strokes) - 1)
     \/ /\ last'.op \in {"drawClear", "clearCanvas"}
        /\ S'.strokes = <<>>]_vars

\* two hydrated strokes are as they were after a remote move delivered while a
\* local stroke was under way
C16_Witness ==
  /\ last.op = "drawMove"
  /\ last.id \in last.open
  /\ last.busy
  /\ last.len = 2
  /\ S.strokes = FromSnapshot(<<SnapA, SnapB>>)
  /\ Len(S.remoteStrokes[last.id].points) = 2

\* C17: the Remote Stroke Table entry of a participant p stays in the table
\* with its points intact through any other event (other participants' events,
\* local gestures, undo, hydration) until a draw:end from p, a new draw:start
\* from p or a clear; a draw:move from p only appends to its points.
C17_EntryStays ==
  [][\A p \in DOMAIN S.remoteStrokes :
       \/ last'.op \in {"drawClear", "clearCanvas"}
       \/ last'.op \in {"drawStart", "drawEnd"} /\ last'.id = p
       \/ /\ p \in DOMAIN S'.remoteStrokes
          /\ IF last'.op = "drawMove" /\ last'.id = p
             THEN /\ S'.remoteStrokes[p].color = S.remoteStrokes[p].color
                  /\ S'.remoteStrokes[p].width = S.remoteStrokes[p].width
                  /\ S'.remoteStrokes[p].isEraser = S.remoteStrokes[p].isEraser
                  /\ Len(S'.remoteStrokes[p].points) >= Len(S.remoteStrokes[p].points)
                  /\ SubSeq(S'.remoteStrokes[p].points, 1, Len(S.remoteStrokes[p].points))
                       = S.remoteStrokes[p].points
             ELSE S'.remoteStrokes[p] = S.remoteStrokes[p]]_vars

\* the entry of "u2" is there with its two points after "u3" began a stroke
C17_Witness ==
  /\ last.op = "drawStart"
  /\ last.id = "u3"
  /\ "u2" \in last.open
  /\ "u2" \in DOMAIN S.remoteStrokes
  /\ S.remoteStrokes["u2"].points = <<P0, P1>>

\* C18: end() with a local stroke in progress appends exactly that stroke to
\* the Stroke Store, clears the builder and emits exactly one draw:end; with no
\* stroke in progress it changes no state and emits no event.  (onMouseUp is
\* attached to the canvas from mouse down to mouse up only, so a release with
\* no stroke in progress reaches no handler.)
C18_End ==
  [][last'.op = "mouseUp"
       => IF last'.busy
          THEN /\ S'.strokes = Append(S.strokes, S.currentStroke[1])
               /\ S'.currentStroke = Null
               /\ S'.out = <<[type |-> "draw:end"]>>
          ELSE /\ S'.strokes = S.strokes
               /\ S'.currentStroke = S.currentStroke
               /\ S'.remoteStrokes = S.remoteStrokes
               /\ S'.canvas = S.canvas
               /\ S'.listening = S.listening
               /\ S'.out = <<>>]_vars

\* a stroke of three points has just been ended
C18_Witness ==
  /\ last.op = "mouseUp"
  /\ last.busy
  /\ Len(S.strokes) = last.len + 1
  /\ Len(LastStroke(S.strokes).points) = 3
  /\ S.currentStroke = Null
  /\ S.out = <<[type |-> "draw:end"]>>

\* C19: for each local gesture the participant emits draw:start with the origin
\* and the style, then one draw:move per extend with the point just appended,
\* then draw:end; the points sent on the wire for the gesture, in order, are
\* exactly the points of the stroke the sender appends to its own store.
C19_WireMatchesStore ==
  [][/\ (last'.op = "mouseDown" /\ S.myUser = "user")
          => \E coords \in Points, style \in Styles :
               /\ H'.drawn = <<coords>>
               /\ S'.currentStroke # Null
               /\ S'.currentStroke[1].color = style.color
               /\ S'.currentStroke[1].width = style.width
               /\ S'.currentStroke[1].isEraser = style.isEraser
               /\ S'.out = <<[type |-> "draw:start", x |-> coords.x, y |-> coords.y,
                              color |-> style.color, width |-> style.width,
                              isEraser |-> style.isEraser]>>
     /\ last'.op = "mouseMove"
          => \E coords \in Points :
               /\ H'.drawn = Append(H.drawn, coords)
               /\ S'.out = <<[type |-> "draw:move", x |-> coords.x, y |-> coords.y]>>
     /\ (last'.op = "mouseUp" /\ last'.busy)
          => /\ S'.out = <<[type |-> "draw:end"]>>
             /\ Appended(S.strokes, S'.strokes)
             /\ LastStroke(S'.strokes).points = H.wire]_vars

\* every point of the stroke is on a path stroked in the stroke's own style
OnCanvas(canvas, stroke) ==
  \A i \in 1..Len(stroke.points) :
    \E k \in 1..Len(canvas) :
      /\ canvas[k].color = (IF stroke.isEraser THEN "white" ELSE stroke.color)
      /\ canvas[k].width = stroke.width
      /\ stroke.points[i] \in PointSet(canvas[k].path)

\* C20: onRemoteStart, and onRemoteMove for a participant that has an entry,
\* paint the received points immediately: right after the handler every point
\* of that participant's stroke in progress is on the canvas in that stroke's
\* own style, whether or not a local stroke is in progress.
C20_RemotePaintedAtOnce ==
  [][(/\ last'.op \in {"drawStart", "drawMove"}
      /\ ~last'.bad
      /\ last'.op = "drawMove" => last'.id \in last'.open)
       => /\ last'.id \in DOMAIN S'.remoteStrokes
          /\ OnCanvas(S'.canvas, S'.remoteStrokes[last'.id])]_vars

\* C21: exportCanvas, for each format (png, svg, pdf) and also when the PDF
\* generation throws, leaves the Stroke Store, the Remote Stroke Table and the
\* local stroke in progress unchanged and emits no transport event (nor does
\* it touch the canvas or the pointer listeners, so drawing goes on).
C21_ExportFrame ==
  [][last'.op = "export"
       => /\ S'.strokes = S.strokes
          /\ S'.remoteStrokes = S.remoteStrokes
          /\ S'.remoteOrder = S.remoteOrder
          /\ S'.currentStroke = S.currentStroke
          /\ S'.listening = S.listening
          /\ S'.canvas = S.canvas
          /\ S'.out = <<>>
          /\ ~S'.threw]_vars

\* a PDF export failed, and was reported, with a stroke in the store, a remote
\* stroke in progress and a local stroke in progress
C21_Witness ==
  /\ last.op = "export"
  /\ last.id = "pdf"
  /\ S.alerts = 1
  /\ S.saved = <<>>
  /\ S.strokes # <<>>
  /\ S.remoteStrokes # EmptyTable
  /\ S.currentStroke # Null

\* C22: after any sequence of colour-store operations, recentColors holds at
\* most 10 colours, holds no colour twice and is ordered most recently used
\* first (it holds the colours used last, the latest first); after
\* setCurrentColor(c), currentColor is c and c is the first of recentColors.
C22_RecentColors ==
  LET recent == colorStore.recentColors
  IN /\ Len(recent) <= 10
     /\ \A i \in 1..Len(recent), j \in 1..Len(recent) : i # j => recent[i] # recent[j]
     /\ \A i \in 1..Len(recent) : Stamp(recent[i]) > 0
     /\ \A i \in 1..Len(recent), j \in 1..Len(recent) :
          i < j => Stamp(recent[i]) > Stamp(recent[j])
     /\ \A c \in ColorValues :
          (Stamp(c) > 0 /\ ~Includes(recent, c))
            => /\ Len(recent) = 10
               /\ Stamp(c) < Stamp(recent[10])
     /\ call.op = "setCurrentColor"
          => /\ colorStore.currentColor = call.arg
             /\ recent # <<>>
             /\ recent[1] = call.arg

\* setCurrentColor of an eleventh colour on a full list: the list still holds
\* 10, the new colour first, and the colour used longest ago is gone
C22_Witness ==
  /\ call.op = "setCurrentColor"
  /\ call.arg = 11
  /\ Len(colorStore.recentColors) = 10
  /\ colorStore.recentColors[1] = 11
  /\ ~Includes(colorStore.recentColors, 1)
  /\ Stamp(1) > 0

C24_ReorderKeepsUnique ==
  [][call'.op \in {"reorder", "NotFound"}
       => /\ UniqueOrders(layers')
          /\ \A i \in 1..Len(layers') : layers'[i].order \in Int
          /\ Len(layers') = Len(layers)
          /\ \A i \in 1..Len(layers) : layers'[i].id = layers[i].id]_vars

\* layer 3 was sent below the two others (target -1): it has order 0, each of
\* the others has moved up
C24_Witness ==
  /\ call.op = "reorder"
  /\ call.arg = -1
  /\ Len(layers) = 3
  /\ layers[3].order = 0
  /\ layers[1].order = 1
  /\ layers[2].order = 2

\* C25: a remote draw:start, draw:move or draw:end never changes the local
\* stroke in progress: its points change only through the local mouse-down,
\* mouse-move and mouse-up, whatever the interleaving.
C25_RemoteLeavesLocalStroke ==
  [][last'.op \in {"drawStart", "drawMove", "drawEnd"}
       => S'.currentStroke = S.currentStroke]_vars

\* C26: when hydration and live events interleave, each finalized stroke is at
\* most once in the Stroke Store: a stroke appended by a live draw:end that
\* came before the snapshot response is not appended again by a snapshot that
\* holds it.
C26_StoredOnce ==
  \A i \in 1..Len(server.ids), j \in 1..Len(server.ids) :
    i # j => server.ids[i] # server.ids[j]

\* C27: once a draw:clear (local or remote) has been processed, no stroke
\* finalized before that clear is in the Stroke Store again, also when the
\* snapshot response asked for before the clear is applied after it.
C27_ClearedStaysCleared ==
  \A i \in 1..Len(server.ids) : server.ids[i] \notin server.gone

\* C28: while a local stroke is in progress, a full repaint caused by another
\* event (a remote draw:start, draw:move, draw:end or draw:clear, undo,
\* hydration or resize) leaves every recorded point of the local stroke
\* painted on the canvas (on a path stroked in the local stroke's style).
C28_RepaintKeepsLocalStroke ==
  [][(/\ last'.op \in {"drawStart", "drawMove", "drawEnd", "drawClear", "undo",
                       "hydrate", "resize"}
      /\ S'.redraws > 0
      /\ S.currentStroke # Null
      /\ S'.currentStroke # Null)
       => OnCanvas(S'.canvas, S'.currentStroke[1])]_vars

\* C29: as long as myUser:joined has not been received (myUser is null), no
\* handler creates a local stroke or emits draw:start, draw:move or draw:end;
\* joinMyUser emits myUser:join if the client is connected to the server and
\* nothing if it is not.
C29_NoDrawingBeforeJoined ==
  [][/\ S.myUser = "null"
          => /\ S'.currentStroke = Null
             /\ ~S'.listening
             /\ \A i \in 1..Len(S'.out) :
                  S'.out[i].type \notin {"draw:start", "draw:move", "draw:end"}
     /\ last'.op = "join"
          => /\ S'.out = IF last'.id = "connected" THEN <<[type |-> "myUser:join"]>>
                         ELSE <<>>
             /\ S'.myUser = S.myUser]_vars

\* the unjoined user has pressed the mouse button on the canvas: nothing was
\* begun and nothing emitted
C29_Witness ==
  /\ last.op = "mouseDown"
  /\ S.myUser = "null"
  /\ S.currentStroke = Null
  /\ ~S.listening
  /\ S.out = <<>>

\* C30: a participant whose user has not joined (myUser is null) cannot change
\* the shared drawing: no action of theirs (mouse, keyboard, clear button,
\* resize) emits a draw:* event, draw:clear included, and none empties the
\* Stroke Store.
C30_UnjoinedCannotChange ==
  [][(/\ S.myUser = "null"
      /\ last'.op \in {"mouseDown", "mouseMove", "mouseUp", "undo", "clearCanvas", "resize"})
       => /\ \A i \in 1..Len(S'.out) :
               S'.out[i].type \notin {"draw:start", "draw:move", "draw:end", "draw:clear"}
          /\ ~(S.strokes # <<>> /\ S'.strokes = <<>>)]_vars

\* C31: handling an inbound draw:start, draw:move, draw:end or draw:clear
\* emits no outbound event: only the local pointer gestures and the local
\* clear button emit, so a received clear or stroke is never sent on again by
\* its receiver.
C31_InboundEmitsNothing ==
  [][last'.op \in {"drawStart", "drawMove", "drawEnd", "drawClear"}
       => S'.out = <<>>]_vars

\* a draw:clear was received while the store held strokes and a local stroke
\* was under way: the store is empty and nothing was emitted
C31_Witness ==
  /\ last.op = "drawClear"
  /\ last.len > 0
  /\ last.busy
  /\ S.strokes = <<>>
  /\ S.out = <<>>

====
